---- MODULE Spec2Model ----
(***************************************************************************)
(* State-machine model of the EkDottCarousel web component                 *)
(* (src/src/components/EkDottCarousel.ts): the animation state, the data   *)
(* cursor, the list of <li> slots and the browser Animation object that    *)
(* drives one scroll step.                                                 *)
(*                                                                         *)
(* Environment: the host calls the public methods and changes attributes   *)
(* of an element that is attached to the document (connectedCallback has   *)
(* run); pointer and visibility listeners exist only from then on.         *)
(***************************************************************************)
EXTENDS Integers, Sequences, FiniteSets, TLC

\* ---------------------------------------------------------------- bounds
\* Longest data feed handed to setFeed.
MaxLen == 5

\* Most searches submitted to the input component.
MaxSearches == 3

\* ------------------------------------------------------------- constants
\* KeyframeAnimationOptions.duration, in seconds (3000 ms); one Tick is 1 s.
Duration == 3
\* The not-a-number value of JavaScript (parseInt of a non-number, x % 0).
\* Every genuine number of the model is >= 0, so -1 is free to stand for it.
NaN == -1
\* An <li> that holds no rendered book (innerHTML is empty).
Empty == 0

\* enum AnimationState
Playing == "Playing"
Paused == "Paused"
Stopped == "Stopped"
AnimationState == {Playing, Paused, Stopped}

NoError == "none"
TypeError == "TypeError"
RangeError == "RangeError"

\* _data before the first setFeed.
NullData == <<Empty>>
\* A book is identified by its key; the feed of length L is books 1..L.
Book == 1..MaxLen
Feed(L) == [i \in 1..L |-> i]
Feeds == {Feed(L) : L \in 0..MaxLen}

\* _animation before the first _advance.
NoAnimation == [playState |-> "none", currentTime |-> 0, onfinish |-> FALSE]

\* ------------------------------------------------- the 'items' attribute
\* An attribute value is a string, modelled as the sequence of its characters.
Digits == {"0", "1", "2", "3", "4", "5", "6", "7", "8", "9"}
DigitVal(c) ==
    CASE c = "0" -> 0 [] c = "1" -> 1 [] c = "2" -> 2 [] c = "3" -> 3
      [] c = "4" -> 4 [] c = "5" -> 5 [] c = "6" -> 6 [] c = "7" -> 7
      [] c = "8" -> 8 [] c = "9" -> 9
\* newValue of a removed attribute and getAttribute of an absent one: null,
\* which parseInt reads as the string "null".
AttrNull == <<"n", "u", "l", "l">>
AttrValues == {<<"1">>, <<"2">>, <<"0">>, <<"x">>, <<"2", "p", "x">>, AttrNull}

\* parseInt(s, 10): the value of the longest prefix of decimal digits, NaN
\* when that prefix is empty.
RECURSIVE ParseDigits(_, _, _)
ParseDigits(s, i, acc) ==
    IF i > Len(s) \/ s[i] \notin Digits
    THEN acc
    ELSE ParseDigits(s, i + 1, (IF acc = NaN THEN 0 ELSE acc * 10) + DigitVal(s[i]))
ParseInt(s) == ParseDigits(s, 1, NaN)

\* getAttribute('items') || "3"
ItemsOrDefault(v) == IF v = AttrNull \/ v = <<>> THEN <<"3">> ELSE v

\* --------------------------------------------------- the image of a book
\* null: getAttribute of an absent attribute, newValue of a removed one. It
\* is no string; the model keeps it apart from every attribute value.
Null == "<null>"
\* Values of the 'stub-image' attribute, and its absence.
StubAttrValues == {"", "stub.png", Null}
\* Viewport widths on both sides of the two size limits.
Widths == {499, 500, 1079, 1080}
\* Books as the feed gives them: cover_i and isbn are optional, an absent
\* field is undefined; a cover id of 0 is a cover id, an isbn list may be
\* empty.
CoverIds == {0, 7}
IsbnLists == {<<>>, <<"9780">>, <<"9781", "9782">>}
NoBook == [title |-> ""]
BookRecords ==
    {[title |-> "t"]}
      \cup {[title |-> "t", cover_i |-> c] : c \in CoverIds}
      \cup {[title |-> "t", isbn |-> i] : i \in IsbnLists}
      \cup {[title |-> "t", cover_i |-> c, isbn |-> i] :
              c \in CoverIds, i \in IsbnLists}
coverPath == "http://covers.openlibrary.org/b/"
DEFAULT_IMAGE == "https://dummyimage.com/180x250/7f007f/eeeeee.png&text=no+cover"
sizeSuffix(w) == IF w < 500 THEN "S" ELSE IF w < 1080 THEN "M" ELSE "L"

\* _composeImageUrl(book) with this._stubImageUrl = stub in a viewport of
\* width w.
_composeImageUrl(b, stub, w) ==
    IF "cover_i" \in DOMAIN b
    THEN coverPath \o "id/" \o ToString(b.cover_i) \o "-" \o sizeSuffix(w) \o ".jpg"
    ELSE IF "isbn" \in DOMAIN b /\ Len(b.isbn) > 0
    THEN coverPath \o "isbn/" \o b.isbn[1] \o "-" \o sizeSuffix(w)
           \o ".jpg?default=false"
    ELSE IF stub # ""
    THEN stub
    ELSE DEFAULT_IMAGE

\* ------------------------------------------------ JavaScript arithmetic
JsGreater(x, y) == x # NaN /\ y # NaN /\ x > y
JsInc(x) == IF x = NaN THEN NaN ELSE x + 1
JsMod(x, y) == IF x = NaN \/ y = NaN \/ y = 0 THEN NaN ELSE x % y

VARIABLES
    connected,      \* carouselList # null: connectedCallback has run
    data,           \* _data
    numberItems,    \* _numberItems
    dataCursor,     \* _dataCursor
    carouselState,  \* _carouselState
    animation,      \* _animation: the Animation of the current scroll step
    list,           \* the <li> children of carouselList, oldest first
    hidden,         \* document.hidden
    pointerOver,    \* the pointer is over the list
    stepsDone,      \* completions handled while Playing since the last _fillList
    orphans,        \* animations left in flight, callback attached, when
                    \* _advance overwrote _animation
    effects,        \* what the handler that ran last did, in order: "cursor",
                    \* "removeChild", "appendChild" (_addNewItem), "animate"
    lastOp,         \* the operation or signal handled last
    err,            \* the error that operation raised to the host
    stubImageUrl,   \* _stubImageUrl
    clientWidth,    \* document.documentElement.clientWidth, the viewport width
    book,           \* the argument of the last call of _composeImageUrl
    imgUrl,         \* what that call returned
    loading,        \* EkDottInput._loading
    searchData,     \* EkDottInput._data
    requests,       \* the calls of EkDottInput._fetch, in the order submitted
    searchEvents    \* the events EkDottInput has dispatched, oldest first

\* What _composeImageUrl reads and returns.
imageVars == <<stubImageUrl, clientWidth, book, imgUrl>>

\* The state of the search input component.
inputVars == <<loading, searchData, requests, searchEvents>>

\* The state of the carousel's state machine.
carouselVars ==
    <<connected, data, numberItems, dataCursor, carouselState, animation,
      list, hidden, pointerOver, stepsDone, orphans, effects, lastOp, err>>

vars == <<carouselVars, imageVars, inputVars>>

\* Saturation of stepsDone.
MaxSteps == MaxLen + 2

\* The fields the component's methods read and write.
Cur ==
    [data |-> data, numberItems |-> numberItems, dataCursor |-> dataCursor,
     carouselState |-> carouselState, animation |-> animation, list |-> list,
     stepsDone |-> stepsDone, orphans |-> orphans, effects |-> <<>>,
     err |-> NoError]

\* A statement that throws: the method ends there, with the fields as they are.
Throw(s, e) == [s EXCEPT !.err = e]
\* Sequencing: the next statement runs only if nothing was thrown.
Then(s, F(_)) == IF s.err # NoError THEN s ELSE F(s)

\* ------------------------------------------------- Animation (Web Animations)
\* Animation.pause(): holds the current time.
AnimPause(a) == [a EXCEPT !.playState = "paused"]
\* Animation.play(): continues from the held time; an animation that is at
\* its end is rewound and runs again.
AnimPlay(a) ==
    [a EXCEPT !.playState = "running",
              !.currentTime = IF a.currentTime >= Duration THEN 0 ELSE a.currentTime]
\* Animation.finish(): jumps to the end.
AnimFinish(a) == [a EXCEPT !.playState = "finished", !.currentTime = Duration]

\* An animation that can still complete and call _addNewItem.
InFlight(a) == a.playState \in {"running", "paused"} /\ a.onfinish

\* ------------------------------------------------------ private methods
_createList(s) ==
    IF s.numberItems = NaN
    THEN Throw([s EXCEPT !.list = <<>>], RangeError)
    ELSE [s EXCEPT !.list = [i \in 1..(s.numberItems + 2) |-> Empty]]

\* _fillList whose length check is one short (ind < _data.length - 1).
_fillList_DropsLast(s) ==
    IF s.list = <<>>
    THEN [s EXCEPT !.dataCursor = 0, !.stepsDone = 0]
    ELSE IF s.data = NullData
    THEN Throw(s, TypeError)
    ELSE [s EXCEPT
            !.list = [i \in 1..Len(s.list) |->
                        IF i - 1 < Len(s.data) - 1 THEN s.data[i] ELSE s.list[i]],
            !.dataCursor = Len(s.list),
            !.stepsDone = 0]

_fillList(s) ==
    IF s.list = <<>>
    THEN [s EXCEPT !.dataCursor = 0, !.stepsDone = 0]
    ELSE IF s.data = NullData
    THEN Throw(s, TypeError)
    ELSE [s EXCEPT
            !.list = [i \in 1..Len(s.list) |->
                        IF i - 1 < Len(s.data) THEN s.data[i] ELSE s.list[i]],
            !.dataCursor = Len(s.list),
            !.stepsDone = 0]

\* _advance that forgets line 405: no completion callback on the new animation.
_advance_NoCallback(s) ==
    IF s.carouselState = Playing
    THEN IF s.list = <<>>
         THEN Throw(s, TypeError)
         ELSE [s EXCEPT
                 !.animation =
                   [playState |-> "running", currentTime |-> 0, onfinish |-> FALSE],
                 !.orphans = IF InFlight(s.animation) /\ @ < MaxSteps
                             THEN @ + 1 ELSE @,
                 !.effects = Append(@, "animate")]
    ELSE s

_advance(s) ==
    IF s.carouselState = Playing
    THEN IF s.list = <<>>
         THEN Throw(s, TypeError)
         ELSE [s EXCEPT
                 !.animation =
                   [playState |-> "running", currentTime |-> 0, onfinish |-> TRUE],
                 !.orphans = IF InFlight(s.animation) /\ @ < MaxSteps
                             THEN @ + 1 ELSE @,
                 !.effects = Append(@, "animate")]
    ELSE s

\* _addNewItem that wraps the cursor at _numberItems instead of _data.length.
_addNewItem_WrapAtItems(s) ==
    IF s.carouselState = Playing
    THEN IF s.data = NullData
         THEN Throw(s, TypeError)
         ELSE LET cursor == JsMod(JsInc(s.dataCursor), s.numberItems)
                  moved == [s EXCEPT !.dataCursor = cursor,
                                     !.stepsDone = IF @ < MaxSteps THEN @ + 1 ELSE @,
                                     !.effects = Append(@, "cursor")]
              IN  IF moved.list = <<>>
                  THEN moved
                  ELSE IF cursor = NaN \/ cursor >= Len(s.data)
                  THEN Throw([moved EXCEPT !.list = Tail(@),
                                           !.effects = Append(@, "removeChild")],
                             TypeError)
                  ELSE _advance([moved EXCEPT
                                   !.list = Append(Tail(@), s.data[cursor + 1]),
                                   !.effects = @ \o <<"removeChild", "appendChild">>])
    ELSE s

\* _addNewItem that starts the next animation first and recycles after it.
_addNewItem_AdvanceFirst(s) ==
    IF s.carouselState = Playing
    THEN IF s.data = NullData
         THEN Throw(s, TypeError)
         ELSE LET started == IF s.list = <<>> THEN s ELSE _advance(s)
                  cursor == JsMod(JsInc(s.dataCursor), Len(s.data))
                  moved == [started EXCEPT
                              !.dataCursor = cursor,
                              !.stepsDone = IF @ < MaxSteps THEN @ + 1 ELSE @,
                              !.effects = Append(@, "cursor")]
              IN  IF moved.list = <<>>
                  THEN moved
                  ELSE IF cursor = NaN \/ cursor >= Len(s.data)
                  THEN Throw([moved EXCEPT !.list = Tail(@),
                                           !.effects = Append(@, "removeChild")],
                             TypeError)
                  ELSE [moved EXCEPT
                          !.list = Append(Tail(@), s.data[cursor + 1]),
                          !.effects = @ \o <<"removeChild", "appendChild">>]
    ELSE s

\* _addNewItem without the state check of line 363.
_addNewItem_NoStateCheck(s) ==
    IF s.data = NullData
    THEN Throw(s, TypeError)
    ELSE LET cursor == JsMod(JsInc(s.dataCursor), Len(s.data))
             moved == [s EXCEPT !.dataCursor = cursor,
                                !.stepsDone = IF @ < MaxSteps THEN @ + 1 ELSE @,
                                !.effects = Append(@, "cursor")]
         IN  IF moved.list = <<>>
             THEN moved
             ELSE IF cursor = NaN \/ cursor >= Len(s.data)
             THEN Throw([moved EXCEPT !.list = Tail(@),
                                      !.effects = Append(@, "removeChild")],
                        TypeError)
             ELSE _advance([moved EXCEPT
                              !.list = Append(Tail(@), s.data[cursor + 1]),
                              !.effects = @ \o <<"removeChild", "appendChild">>])

_addNewItem(s) ==
    IF s.carouselState = Playing
    THEN IF s.data = NullData
         THEN Throw(s, TypeError)
         ELSE LET cursor == JsMod(JsInc(s.dataCursor), Len(s.data))
                  moved == [s EXCEPT !.dataCursor = cursor,
                                     !.stepsDone = IF @ < MaxSteps THEN @ + 1 ELSE @,
                                     !.effects = Append(@, "cursor")]
              IN  IF moved.list = <<>>
                  THEN moved
                  ELSE IF cursor = NaN \/ cursor >= Len(s.data)
                  THEN Throw([moved EXCEPT !.list = Tail(@),
                                           !.effects = Append(@, "removeChild")],
                             TypeError)
                  ELSE _advance([moved EXCEPT
                                   !.list = Append(Tail(@), s.data[cursor + 1]),
                                   !.effects = @ \o <<"removeChild", "appendChild">>])
    ELSE s

_resume(s) ==
    IF s.animation = NoAnimation
    THEN Throw([s EXCEPT !.carouselState = Playing], TypeError)
    ELSE [s EXCEPT !.carouselState = Playing, !.animation = AnimPlay(@)]

\* ------------------------------------------------------- public methods
\* start that tests only that there is data, not that there is enough of it.
start_NoLengthCheck(s) ==
    IF s.data # NullData
    THEN IF s.carouselState = Paused
         THEN _resume([s EXCEPT !.carouselState = Playing])
         ELSE IF s.carouselState = Stopped
         THEN _advance([s EXCEPT !.carouselState = Playing])
         ELSE s
    ELSE s

start(s) ==
    IF s.data # NullData /\ JsGreater(Len(s.data), s.numberItems)
    THEN IF s.carouselState = Paused
         THEN _resume([s EXCEPT !.carouselState = Playing])
         ELSE IF s.carouselState = Stopped
         THEN _advance([s EXCEPT !.carouselState = Playing])
         ELSE s
    ELSE s

\* stop that only sets the state: the animation keeps running with its callback.
stop_NoFinish(s) ==
    IF s.carouselState = Playing
    THEN [s EXCEPT !.carouselState = Stopped]
    ELSE s

stop(s) ==
    IF s.carouselState = Playing
    THEN IF s.animation = NoAnimation
         THEN Throw([s EXCEPT !.carouselState = Stopped], TypeError)
         ELSE [s EXCEPT !.carouselState = Stopped,
                        !.animation = AnimFinish([@ EXCEPT !.onfinish = FALSE])]
    ELSE s

pause(s) ==
    IF s.carouselState = Playing
    THEN IF s.animation = NoAnimation
         THEN Throw([s EXCEPT !.carouselState = Paused], TypeError)
         ELSE [s EXCEPT !.carouselState = Paused, !.animation = AnimPause(@)]
    ELSE s

setFeed(s, d, autostart) ==
    LET fed == Then(Then([s EXCEPT !.data = d], _createList), _fillList)
    IN  IF autostart THEN Then(fed, start) ELSE fed

\* ------------------------------------------------------------- actions
Assign(r, op) ==
    /\ data' = r.data
    /\ numberItems' = r.numberItems
    /\ dataCursor' = r.dataCursor
    /\ carouselState' = r.carouselState
    /\ animation' = r.animation
    /\ list' = r.list
    /\ stepsDone' = r.stepsDone
    /\ orphans' = r.orphans
    /\ effects' = r.effects
    /\ err' = r.err
    /\ lastOp' = op

\* A handler of the state machine: it assigns the fields and leaves the
\* stub image (the markup of this carousel gives none), the renderer's
\* inputs and the search input component alone.
Commit(r, op) ==
    /\ Assign(r, op)
    /\ UNCHANGED <<imageVars, inputVars>>

Init ==
    /\ connected = FALSE
    /\ data = NullData
    /\ numberItems = 0
    /\ dataCursor = 0
    /\ carouselState = Stopped
    /\ animation = NoAnimation
    /\ list = <<>>
    /\ hidden = FALSE
    /\ pointerOver = FALSE
    /\ stepsDone = 0
    /\ orphans = 0
    /\ effects = <<>>
    /\ lastOp = "constructor"
    /\ err = NoError
    /\ stubImageUrl = ""
    /\ clientWidth = 1080
    /\ book = NoBook
    /\ imgUrl = ""
    /\ loading = FALSE
    /\ searchData = NullData
    /\ requests = <<>>
    /\ searchEvents = <<>>

\* connectedCallback, with the 'items' attribute the markup gives (or none).
Connect ==
    /\ ~connected
    /\ \E v \in AttrValues :
         Commit(_createList([Cur EXCEPT !.numberItems = ParseInt(ItemsOrDefault(v))]),
                "connectedCallback")
    /\ connected' = TRUE
    /\ UNCHANGED <<hidden, pointerOver>>

SetFeed ==
    /\ connected
    /\ \E d \in Feeds, autostart \in BOOLEAN :
         Commit(setFeed(Cur, d, autostart),
                IF autostart THEN "setFeedAutostart" ELSE "setFeed")
    /\ UNCHANGED <<connected, hidden, pointerOver>>

Start ==
    /\ connected
    /\ Commit(start(Cur), "start")
    /\ UNCHANGED <<connected, hidden, pointerOver>>

Stop ==
    /\ connected
    /\ Commit(stop(Cur), "stop")
    /\ UNCHANGED <<connected, hidden, pointerOver>>

Pause ==
    /\ connected
    /\ Commit(pause(Cur), "pause")
    /\ UNCHANGED <<connected, hidden, pointerOver>>

\* attributeChangedCallback without the switch of lines 198-210: the state
\* saved before stop() is not restored.
attributeChangedCallback_NoRestore(s, newValue) ==
    Then(Then(stop([s EXCEPT !.numberItems = ParseInt(newValue)]), _createList),
         _fillList)

\* attributeChangedCallback('items', oldValue, newValue) on a connected element.
attributeChangedCallback(s, newValue) ==
    LET carouselStateBefore == s.carouselState
        rebuilt == Then(Then(stop([s EXCEPT !.numberItems = ParseInt(newValue)]),
                             _createList),
                        _fillList)
        startThenPause(x) == Then(start(x), pause)
    IN  IF carouselStateBefore = Playing THEN Then(rebuilt, start)
        ELSE IF carouselStateBefore = Paused THEN Then(rebuilt, startThenPause)
        ELSE rebuilt

AttributeChanged ==
    /\ connected
    /\ \E v \in AttrValues :
         Commit(attributeChangedCallback(Cur, v), "attributeChanged")
    /\ UNCHANGED <<connected, hidden, pointerOver>>

\* 'mouseover' on the list: pause.bind(this).
MouseOver ==
    /\ connected
    /\ ~pointerOver
    /\ pointerOver' = TRUE
    /\ Commit(pause(Cur), "mouseover")
    /\ UNCHANGED <<connected, hidden>>

\* 'mouseout' on the list: start.bind(this).
MouseOut ==
    /\ connected
    /\ pointerOver
    /\ pointerOver' = FALSE
    /\ Commit(start(Cur), "mouseout")
    /\ UNCHANGED <<connected, hidden>>

\* 'visibilitychange' on the document: _visibilityChange once it is registered.
_visibilityChange(s, nowHidden) == IF nowHidden THEN pause(s) ELSE start(s)

VisibilityChange ==
    /\ hidden' = ~hidden
    /\ Commit(IF connected THEN _visibilityChange(Cur, ~hidden) ELSE Cur,
              IF hidden THEN "visible" ELSE "hidden")
    /\ UNCHANGED <<connected, pointerOver>>

\* One second of a running animation that does not reach its end.
Tick ==
    /\ animation.playState = "running"
    /\ animation.currentTime + 1 < Duration
    /\ Commit([Cur EXCEPT !.animation.currentTime = @ + 1], "tick")
    /\ UNCHANGED <<connected, hidden, pointerOver>>

\* The running animation reaches its end: it is finished (fill: forwards) and
\* its finish event is delivered to onfinish, _addNewItem when attached.
Finish ==
    /\ animation.playState = "running"
    /\ animation.currentTime + 1 = Duration
    /\ LET ended == [Cur EXCEPT !.animation = AnimFinish(@)]
       IN  Commit(IF animation.onfinish THEN _addNewItem(ended) ELSE ended, "finish")
    /\ UNCHANGED <<connected, hidden, pointerOver>>

Next ==
    \/ Connect
    \/ SetFeed
    \/ Start
    \/ Stop
    \/ Pause
    \/ AttributeChanged
    \/ MouseOver
    \/ MouseOut
    \/ VisibilityChange
    \/ Tick
    \/ Finish

Spec == Init /\ [][Next]_vars

\* The completion callback run outside Playing: the case the check of line
\* 363 is written for, a finish event that reaches _addNewItem after pause()
\* or stop() has changed the state. The animation itself is left as it is.
LateCompletion ==
    /\ connected
    /\ carouselState # Playing
    /\ Commit(_addNewItem(Cur), "lateFinish")
    /\ UNCHANGED <<connected, hidden, pointerOver>>

\* The carousel with late completions delivered as well.
NextLate ==
    \/ Connect
    \/ SetFeed
    \/ Start
    \/ Stop
    \/ Pause
    \/ AttributeChanged
    \/ MouseOver
    \/ MouseOut
    \/ VisibilityChange
    \/ Tick
    \/ Finish
    \/ LateCompletion

SpecLate == Init /\ [][NextLate]_vars

\* ------------------------------------------------- rendering of a book
\* connectedCallback of a carousel whose markup has no 'items' attribute and
\* may have a 'stub-image' attribute.
ConnectWithStub ==
    /\ ~connected
    /\ Assign(_createList([Cur EXCEPT
                             !.numberItems = ParseInt(ItemsOrDefault(AttrNull))]),
              "connectedCallback")
    /\ connected' = TRUE
    /\ \E v \in StubAttrValues :
         stubImageUrl' = (IF v = Null \/ v = "" THEN "" ELSE v)
    /\ UNCHANGED <<hidden, pointerOver, clientWidth, book, imgUrl, inputVars>>

\* attributeChangedCallback('stub-image', oldValue, newValue): the attribute
\* is set, or removed (newValue is null).
StubImageChanged ==
    /\ \E v \in StubAttrValues : stubImageUrl' = v
    /\ Assign(Cur, "stubImageChanged")
    /\ UNCHANGED <<connected, hidden, pointerOver, clientWidth, book, imgUrl, inputVars>>

\* The viewport is resized.
Resize ==
    /\ \E w \in Widths \ {clientWidth} : clientWidth' = w
    /\ Assign(Cur, "resize")
    /\ UNCHANGED <<connected, hidden, pointerOver, stubImageUrl, book, imgUrl, inputVars>>

\* _fillItem renders a book of the feed: it calls _composeImageUrl.
ComposeImageUrl ==
    /\ connected
    /\ \E b \in BookRecords :
         /\ book' = b
         /\ imgUrl' = _composeImageUrl(b, stubImageUrl, clientWidth)
    /\ Assign(Cur, "composeImageUrl")
    /\ UNCHANGED <<connected, hidden, pointerOver, stubImageUrl, clientWidth, inputVars>>

NextImage ==
    \/ ConnectWithStub
    \/ StubImageChanged
    \/ Resize
    \/ ComposeImageUrl

SpecImage == Init /\ [][NextImage]_vars

\* ------------------------------------------- the search input component
\* EkDottInput (src/src/components/EkDottInput.ts), attached to the document.
\* A call of _fetch awaits fetch(), then res.json(); either may reject.
\* The docs of the response to search k, remapped to Book[].
Docs(k) == <<k>>
Settled(r) == r.stage \in {"done", "error"}

\* submit(searchTerm): setQuery, _search, and _fetch up to its first await.
Submit ==
    /\ Len(requests) < MaxSearches
    /\ loading' = TRUE
    /\ searchData' = NullData
    /\ requests' = Append(requests, [stage |-> "fetch", result |-> NullData])
    /\ UNCHANGED <<searchEvents, carouselVars, imageVars>>

\* fetch() of search k resolves: _fetch goes on to await res.json().
FetchResolves ==
    /\ \E k \in 1..Len(requests) :
         /\ requests[k].stage = "fetch"
         /\ requests' = [requests EXCEPT ![k].stage = "json"]
    /\ UNCHANGED <<loading, searchData, searchEvents, carouselVars, imageVars>>

\* res.json() of search k resolves, with docs or without: the rest of the
\* try block runs, and _raiseSearchDone dispatches a copy of _data, or [].
JsonResolves ==
    /\ \E k \in 1..Len(requests), hasDocs \in BOOLEAN :
         LET mapped == IF hasDocs THEN Docs(k) ELSE NullData
         IN  /\ requests[k].stage = "json"
             /\ searchData' = mapped
             /\ loading' = FALSE
             /\ requests' = [requests EXCEPT ![k].stage = "done",
                                              ![k].result = mapped]
             /\ searchEvents' =
                  Append(searchEvents,
                         [type |-> "searchdone", search |-> k,
                          data |-> IF mapped # NullData THEN mapped ELSE <<>>])
    /\ UNCHANGED <<carouselVars, imageVars>>

\* fetch() or res.json() of search k rejects: the catch block runs.
Rejects ==
    /\ \E k \in 1..Len(requests) :
         /\ requests[k].stage \in {"fetch", "json"}
         /\ loading' = FALSE
         /\ searchData' = NullData
         /\ requests' = [requests EXCEPT ![k].stage = "error"]
         /\ searchEvents' =
              Append(searchEvents,
                     [type |-> "searcherror", search |-> k, data |-> <<>>])
    /\ UNCHANGED <<carouselVars, imageVars>>

getData == searchData

NextInput ==
    \/ Submit
    \/ FetchResolves
    \/ JsonResolves
    \/ Rejects

SpecInput == Init /\ [][NextInput]_vars

\* ------------------------------------------------------------ shorthands
\* start() finds data and more of it than numberItems (line 434).
EnoughData == data # NullData /\ JsGreater(Len(data), numberItems)
\* The configured number of visible items is a valid one.
ValidItems == numberItems # NaN /\ numberItems >= 1
AllEmpty(l) == \A i \in 1..Len(l) : l[i] = Empty

\* ---------------------------------------------------------------- claims

\* C1: for every visibleCount n >= 1 the slot pool holds exactly n+2 slots in
\* every state after the pool has been built, whatever rebuilds, fills and
\* step-completion recycles have happened.
C1_SlotCount ==
    (connected /\ ValidItems) => Len(list) = numberItems + 2

\* C2: with no feed, or a feed of length L <= visibleCount, start() starts no
\* animation and changes nothing; a Stopped carousel remains Stopped.
C2_StartRefused ==
    [][(lastOp' = "start" /\ ~EnoughData)
         => /\ carouselState' = carouselState
            /\ animation' = animation
            /\ list' = list
            /\ dataCursor' = dataCursor
            /\ err' = NoError]_vars

C2_Witness ==
    /\ lastOp = "start"
    /\ ValidItems
    /\ data # NullData
    /\ Len(data) <= numberItems
    /\ carouselState = Stopped
    /\ ~InFlight(animation)

\* C3: when the state is Stopped and the data length exceeds visibleCount,
\* start() moves the state to Playing and starts exactly one scroll step: the
\* handle replaced was not in flight, the new animation runs from its
\* beginning with the completion callback attached.
C3_StartPlays ==
    [][(lastOp' = "start" /\ carouselState = Stopped /\ EnoughData)
         => /\ carouselState' = Playing
            /\ ~InFlight(animation)
            /\ animation' = [playState |-> "running", currentTime |-> 0,
                             onfinish |-> TRUE]
            /\ list' = list
            /\ dataCursor' = dataCursor
            /\ err' = NoError]_vars

C3_Witness ==
    /\ lastOp = "start"
    /\ ValidItems
    /\ EnoughData
    /\ carouselState = Playing
    /\ animation = [playState |-> "running", currentTime |-> 0, onfinish |-> TRUE]

\* C4: stop() always leaves the state Stopped, whatever the state before it.
C4_StopStops ==
    lastOp = "stop" => carouselState = Stopped

\* C5: once stop() has returned, the completion callback is detached and the
\* animation is at its end: no animation that can still complete and recycle
\* is left in flight.
C5_StopDetaches ==
    lastOp = "stop" => (~animation.onfinish /\ ~InFlight(animation))

\* C6: setFeed without autostart leaves the state Stopped from any state; with
\* autostart the state is Playing afterwards only when start() succeeds, that
\* is when there is enough data, and is Stopped otherwise.
C6_SetFeedStops ==
    /\ (lastOp = "setFeed" /\ ValidItems) => carouselState = Stopped
    /\ (lastOp = "setFeedAutostart" /\ ValidItems)
         => carouselState = (IF EnoughData THEN Playing ELSE Stopped)

\* C7: setFeed([], false) leaves the carousel Stopped with all visibleCount+2
\* slots empty, and raises no error, from any reachable state.
C7_EmptyFeed ==
    (lastOp = "setFeed" /\ data = <<>> /\ ValidItems)
      => /\ carouselState = Stopped
         /\ Len(list) = numberItems + 2
         /\ AllEmpty(list)
         /\ err = NoError

\* C8 as stated: for a feed of length L > visibleCount, L step completions
\* after the feed return the Cursor to the value the feed gave it, the slot
\* count visibleCount + 2.
C8_CursorReturns ==
    (ValidItems /\ EnoughData /\ stepsDone = Len(data) /\ stepsDone < MaxSteps)
      => dataCursor = numberItems + 2

\* C8 as amended: L step completions after the feed bring the Cursor to its
\* starting value reduced modulo L, which is the starting value itself
\* exactly when L >= visibleCount + 3.
C8_CursorReturnsModulo ==
    (ValidItems /\ EnoughData /\ stepsDone = Len(data) /\ stepsDone < MaxSteps)
      => /\ dataCursor = (numberItems + 2) % Len(data)
         /\ (dataCursor = numberItems + 2) <=> (Len(data) >= numberItems + 3)

C8_Witness ==
    /\ lastOp = "finish"
    /\ ValidItems
    /\ EnoughData
    /\ stepsDone = Len(data)
    /\ Len(data) = numberItems + 1
    /\ dataCursor = 1

\* C9: after a feed of L items that fills every slot and k step completions,
\* slot i (from 0) holds item (k + i) mod L: the pool is a contiguous cyclic
\* run of the data, so nothing is skipped or shown twice in a row.
C9_ContiguousRun ==
    (ValidItems /\ data # NullData /\ Len(data) >= numberItems + 2
       /\ Len(list) = numberItems + 2 /\ stepsDone < MaxSteps)
      => \A i \in 1..Len(list) :
           list[i] = data[((stepsDone + i - 1) % Len(data)) + 1]

\* C10: start() right after a pause() resumes the step that was paused: the
\* state is Playing again, the same animation runs on from the time it was
\* held at, and the Cursor and the slots are untouched.
C10_PauseStartResumes ==
    [][(lastOp = "pause" /\ carouselState = Paused /\ ValidItems
          /\ lastOp' = "start")
         => /\ carouselState' = Playing
            /\ animation' = [animation EXCEPT !.playState = "running"]
            /\ animation.currentTime < Duration
            /\ dataCursor' = dataCursor
            /\ list' = list]_vars

\* start() would find enough data for n visible items.
EnoughFor(n) == data # NullData /\ JsGreater(Len(data), n)

\* C11: a window-hidden signal changes the state only from Playing, to
\* Paused; a carousel that is Stopped when the window is hidden is still
\* Stopped once the window-visible signal that follows has been handled.
C11_VisibilityRestores ==
    [][/\ (lastOp' = "hidden" /\ connected /\ ValidItems)
            => carouselState' = (IF carouselState = Playing THEN Paused
                                 ELSE carouselState)
       /\ (lastOp = "hidden" /\ lastOp' = "visible" /\ connected /\ ValidItems
             /\ carouselState = Stopped)
            => carouselState' = Stopped]_vars

\* C12: pointer-enter during Playing moves the state to Paused and holds the
\* animation at the time it has reached; the pointer-leave that follows moves
\* the state back to Playing and runs that same animation on from the held
\* time, with the Cursor and the slots untouched.
C12_PointerPauseResume ==
    [][/\ (lastOp' = "mouseover" /\ carouselState = Playing /\ ValidItems)
            => /\ carouselState' = Paused
               /\ animation' = [animation EXCEPT !.playState = "paused"]
       /\ (lastOp = "mouseover" /\ carouselState = Paused /\ ValidItems
             /\ lastOp' = "mouseout")
            => /\ carouselState' = Playing
               /\ animation' = [animation EXCEPT !.playState = "running"]
               /\ animation.currentTime < Duration
               /\ dataCursor' = dataCursor
               /\ list' = list]_vars

\* C13 as stated: a change of the 'items' attribute to a valid count leaves
\* the animation state as it was, for every state before it and every count.
C13_AttributeKeepsState ==
    [][(lastOp' = "attributeChanged" /\ numberItems' # NaN /\ numberItems' >= 1)
         => carouselState' = carouselState]_vars

\* C13 as amended: a change of the 'items' attribute leaves Paused Paused and
\* Stopped Stopped; Playing stays Playing exactly when the data is longer
\* than the new count, and becomes Stopped otherwise (as it does for a count
\* that is not a number).
C13_AttributeKeepsStateIfEnough ==
    [][lastOp' = "attributeChanged"
         => carouselState' =
              (IF carouselState = Playing /\ ~EnoughFor(numberItems')
               THEN Stopped ELSE carouselState)]_vars

C13_Witness ==
    /\ lastOp = "attributeChanged"
    /\ ValidItems
    /\ carouselState = Playing
    /\ Len(list) = numberItems + 2
    /\ dataCursor = numberItems + 2

\* C14: the number of visible items is at least 1 in every state of a
\* connected carousel: a value that is <= 0 or not a number is rejected or
\* replaced by a safe default.
C14_VisibleCountPositive ==
    connected => (numberItems # NaN /\ numberItems >= 1)

\* C15: no operation and no inbound signal raises an error to the host, in
\* any state of a carousel with a valid number of visible items.
C15_NoError ==
    (connected /\ ValidItems) => err = NoError

\* C18: while the page is hidden the carousel is never Playing.
C18_HiddenNeverPlaying ==
    (connected /\ ValidItems /\ hidden) => carouselState # Playing

\* C20: the carousel is never Playing while the data is not longer than the
\* number of visible items.
C20_PlayingHasEnoughData ==
    (connected /\ ValidItems /\ carouselState = Playing) => EnoughData

\* Animations of this carousel that can still complete and call _addNewItem.
AnimationsInFlight == orphans + (IF InFlight(animation) THEN 1 ELSE 0)
\* The places of effect e in the handler's sequence of effects.
Places(e) == {i \in 1..Len(effects) : effects[i] = e}

\* C16: at most one animation with an attached completion callback is in
\* flight, running or paused, in every reachable state.
C16_OneAnimationInFlight ==
    AnimationsInFlight <= 1

C16_Witness ==
    /\ lastOp = "start"
    /\ InFlight(animation)
    /\ animation.currentTime = 0
    /\ orphans = 0
    /\ stepsDone >= 1

\* C17: in every step completion the next scroll step is started only after
\* the Cursor has advanced and the oldest slot has been recycled (removed and
\* its replacement appended): no step starts between a completion and its
\* recycle.
C17_RecycleBeforeNextStep ==
    lastOp = "finish"
      => \A i \in Places("animate") :
           /\ \E j \in Places("cursor") : j < i
           /\ \E j \in Places("removeChild") : j < i
           /\ \E j \in Places("appendChild") : j < i

C17_Witness ==
    /\ lastOp = "finish"
    /\ carouselState = Playing
    /\ effects = <<"cursor", "removeChild", "appendChild", "animate">>
    /\ InFlight(animation)

\* C19: a step completion handled while Playing over L > 0 items changes the
\* Cursor exactly once, to (Cursor + 1) mod L, a value in [0, L); a completion
\* handled in another state, and every operation other than a completion or
\* a rebuild (setFeed, attribute change), leaves the Cursor as it is.
C19_CursorAdvance ==
    [][/\ (lastOp' = "finish" /\ animation.onfinish /\ carouselState = Playing
             /\ data # NullData /\ Len(data) > 0)
            => /\ dataCursor # NaN
               /\ dataCursor' = (dataCursor + 1) % Len(data)
               /\ dataCursor' \in 0..(Len(data) - 1)
               /\ Cardinality({i \in 1..Len(effects') : effects'[i] = "cursor"}) = 1
       /\ (lastOp' = "finish" /\ ~(animation.onfinish /\ carouselState = Playing))
            => dataCursor' = dataCursor
       /\ (lastOp' \notin {"finish", "setFeed", "setFeedAutostart", "attributeChanged"})
            => dataCursor' = dataCursor]_vars

C19_Witness ==
    /\ lastOp = "finish"
    /\ carouselState = Playing
    /\ ValidItems
    /\ EnoughData
    /\ stepsDone = 2
    /\ dataCursor = (numberItems + 4) % Len(data)

\* C21: while the data length is 0 no step completion recycles a slot or
\* changes the Cursor, in any reachable state (an empty feed delivered while
\* a step is in flight included), and start() is a no-op.
C21_EmptyDataFrozen ==
    [][/\ (lastOp' = "finish" /\ data = <<>> /\ ValidItems)
            => /\ dataCursor' = dataCursor
               /\ list' = list
       /\ (lastOp' = "start" /\ data = <<>> /\ ValidItems)
            => /\ carouselState' = carouselState
               /\ animation' = animation
               /\ dataCursor' = dataCursor
               /\ list' = list]_vars

\* C22: every rebuild of the slot pool (setFeed, change of the 'items'
\* attribute) resets the Cursor to the slot count, visibleCount + 2, whatever
\* the Cursor and the animation state were before it.
C22_RebuildResetsCursor ==
    (lastOp \in {"setFeed", "setFeedAutostart", "attributeChanged"} /\ ValidItems)
      => dataCursor = numberItems + 2

\* C23: after setFeed(data) the slots 0..k-1, k = min(visibleCount + 2,
\* length), hold the data items 0..k-1 in order and every slot at an index
\* >= length is empty, for every length, 0 and lengths shorter than the slot
\* count included.
C23_SetFeedFillsSlots ==
    lastOp \in {"setFeed", "setFeedAutostart"}
      => /\ numberItems # NaN => Len(list) = numberItems + 2
         /\ \A i \in 1..Len(list) :
              list[i] = (IF i <= Len(data) THEN data[i] ELSE Empty)

C23_Witness ==
    /\ lastOp = "setFeed"
    /\ ValidItems
    /\ Len(data) = numberItems + 1
    /\ list[Len(data)] = data[Len(data)]
    /\ list[numberItems + 2] = Empty
    /\ stepsDone = 0
    /\ carouselState = Playing

\* C24: the carousel scrolls non-stop: while it is Playing a scroll step is
\* always in flight, running with the completion callback attached, so that
\* every completion is followed by a new step and completions never cease,
\* also after a new feed has arrived while Playing.
C24_PlayingKeepsScrolling ==
    (connected /\ ValidItems /\ carouselState = Playing)
      => (animation.playState = "running" /\ animation.onfinish)

\* C26: a step-completion callback that runs while the state is not Playing
\* (Paused or Stopped) leaves the Cursor, the slot pool and the animation
\* handle unchanged and starts no new step.
C26_LateCompletionNoEffect ==
    [][(lastOp' = "lateFinish" /\ carouselState # Playing)
         => /\ dataCursor' = dataCursor
            /\ list' = list
            /\ animation' = animation
            /\ carouselState' = carouselState
            /\ effects' = <<>>
            /\ err' = NoError]_vars

C26_Witness ==
    /\ lastOp = "lateFinish"
    /\ carouselState = Paused
    /\ animation.playState = "paused"
    /\ animation.onfinish
    /\ EnoughData
    /\ Len(list) = numberItems + 2
    /\ stepsDone = 1

\* The URLs the two cover services of openlibrary.org can be asked for.
CoverIdUrls(c) ==
    {coverPath \o "id/" \o ToString(c) \o "-" \o z \o ".jpg" : z \in {"S", "M", "L"}}
IsbnUrls(i) ==
    {coverPath \o "isbn/" \o i \o "-" \o z \o ".jpg?default=false" :
       z \in {"S", "M", "L"}}
\* A stub image is configured: _stubImageUrl is a string, and not the empty one.
StubConfigured == stubImageUrl # Null /\ stubImageUrl # ""

\* C25: the image URL of a rendered item is chosen in strict priority order:
\* the cover-id URL when a cover id is present; otherwise the first-ISBN URL
\* when the ISBN list is present and non-empty; otherwise the configured stub
\* image when it is non-empty; otherwise the hardcoded default placeholder.
C25_ImageUrlPriority ==
    lastOp = "composeImageUrl"
      => IF "cover_i" \in DOMAIN book
         THEN imgUrl \in CoverIdUrls(book.cover_i)
         ELSE IF "isbn" \in DOMAIN book /\ book.isbn # <<>>
         THEN imgUrl \in IsbnUrls(book.isbn[1])
         ELSE IF StubConfigured
         THEN imgUrl = stubImageUrl
         ELSE imgUrl = DEFAULT_IMAGE

\* The events dispatched for search k.
EventsOf(k) == {i \in 1..Len(searchEvents) : searchEvents[i].search = k}

\* C27: when searches are submitted one after the other and their responses
\* arrive in any order, each search raises exactly one event (searchdone or
\* searcherror) when it settles; once all have settled getData() holds the
\* result of the search submitted last; and the loading flag is true exactly
\* while some request is still in flight.
C27_LatestSearchWins ==
    /\ \A k \in 1..Len(requests) :
         /\ Cardinality(EventsOf(k)) = (IF Settled(requests[k]) THEN 1 ELSE 0)
         /\ \A i \in EventsOf(k) :
              searchEvents[i].type = (IF requests[k].stage = "done"
                                      THEN "searchdone" ELSE "searcherror")
    /\ (requests # <<>> /\ \A k \in 1..Len(requests) : Settled(requests[k]))
         => getData = requests[Len(requests)].result
    /\ loading <=> (\E k \in 1..Len(requests) : ~Settled(requests[k]))
====
